---- MODULE Spec2Model ----
(***************************************************************************)
(* Verification model of vllm/entrypoints/chat_utils.py:                   *)
(*   - the multimodal item trackers and content parsers, driven by         *)
(*     parse_chat_messages (blocking) and parse_chat_messages_futures      *)
(*     (concurrent), run side by side on the same input;                   *)
(*   - the chat template analyzer (_detect_content_format);                *)
(*   - resolve_chat_template_content_format and its memoized diagnostic.   *)
(*                                                                         *)
(* Python strings are sequences of symbols: a symbol is an indivisible     *)
(* piece of text (a word, a placeholder token, "\n").  Python dicts that   *)
(* are iterated are sequences of [k, v] entries in insertion order.        *)
(***************************************************************************)
EXTENDS Naturals, Integers, Sequences, FiniteSets, TLC

VARIABLES
    \* ---- one request, parsed by both drivers ----
    model_type,          \* model_config.hf_config.model_type
    limit_per_prompt,    \* model_config.multimodal_config.limit_per_prompt
    content_format,      \* "string" | "openai"
    pc,                  \* position of the drivers' loop over the input
    role,                \* role of the message being parsed
    nmsgs,               \* messages of the input consumed so far
    nparts,              \* content parts of the input consumed so far
    run,                 \* per driver: "running" | "returned" | "raised"
    error,               \* per driver: [kind, stage] of the exception raised
    items_by_modality,   \* per driver: tracker._items_by_modality
    placeholder_counts,  \* per driver: parser._placeholder_counts
    content,             \* per driver: content list of the current message
    conversation,        \* per driver: list of ConversationMessage
    mm_data,             \* per driver: outcome of all_mm_data()
    gather_idx,          \* concurrent all_mm_data: entry being gathered
    tasks,               \* concurrent all_mm_data: tasks of that gather
    gathered,            \* concurrent all_mm_data: resolved entries so far
    input,               \* history: the content parts consumed so far, each
                         \* with the number of its message
    cur_msg,             \* per driver: number of the message it parsed last
    add_log,             \* per driver: history of the calls of add
    fetch_log,           \* per driver: history of the collaborator's calls
    completion,          \* concurrent all_mm_data: the tasks of the current
                         \* gather in the order they completed
    messages,            \* per driver: the caller's list of input messages
                         \* (role, name, tool_calls, ...) as it is now
    original,            \* history: the input messages as they arrived
    pass,                \* 1, or 2 when the same list is parsed again
    first_parse,         \* per driver: what the first parse returned
    \* ---- one run of the chat template analyzer ----
    an_template,         \* the chat template text handed to the analyzer
    jinja_ast,           \* what _try_extract_ast returned
    an_default,          \* the default the caller passes
    an_pc,               \* "start" | "bfs" | "content" | "done" | "exhausted"
    related_varnames,    \* the deque of _iter_nodes_assign_var_or_elems
    messages_varnames,   \* the list made of the names it yields
    message_varnames,    \* the list made of the per-message loop targets
    an_result,           \* what _detect_content_format returns
    \* ---- resolve_chat_template_content_format and its diagnostic ----
    tokenizer_template,  \* the chat template the tokenizer carries
    log_cache,           \* keys held by the lru_cache, least recent first
    calls                \* history: the calls made and what each emitted

reqvars == <<model_type, limit_per_prompt, content_format, pc, role, nmsgs, nparts,
             run, error, items_by_modality, placeholder_counts, content,
             conversation, mm_data, gather_idx, tasks, gathered, input,
             cur_msg, add_log, fetch_log, completion, messages, original,
             pass, first_parse>>
msgvars == <<messages, original, pass, first_parse>>
anvars == <<an_template, jinja_ast, an_default, an_pc, related_varnames, messages_varnames,
            message_varnames, an_result>>
fmtvars == <<tokenizer_template, log_cache, calls>>
vars == <<reqvars, anvars, fmtvars>>

(***************************************************************************)
(* Bounds of the model.                                                    *)
(***************************************************************************)
MaxMessages == 2     \* messages per request
MaxParts == 3        \* content parts per request
MaxLimit == 2        \* largest configured per-modality limit
MaxStmts == 3        \* assignment and loop statements of a template
MaxYields == 4       \* names the list of aliases holds before memory runs out
MaxCalls == 4        \* calls of resolve_chat_template_content_format
LruMaxSize == 2      \* entries the lru_cache holds (functools' default maxsize
                     \* of 128, scaled down)

(***************************************************************************)
(* Python values.                                                          *)
(***************************************************************************)
Drivers == {"sync", "async"}

NL == <<"\n">>
EmptyStr == <<>>
EmptyDict == <<>>

\* Optional[str]
PyNone == [isNone |-> TRUE, s |-> EmptyStr]
PyStr(s) == [isNone |-> FALSE, s |-> s]

\* dict.get(key, default) on a dict with string keys
Get(d, key, default) == IF key \in DOMAIN d THEN d[key] ELSE default

\* insertion-ordered dicts
DictHas(d, k) == \E i \in 1..Len(d) : d[i].k = k
DictGet(d, k) == d[CHOOSE i \in 1..Len(d) : d[i].k = k].v
DictSet(d, k, v) ==
    IF DictHas(d, k)
    THEN [i \in 1..Len(d) |-> IF d[i].k = k THEN [k |-> k, v |-> v] ELSE d[i]]
    ELSE Append(d, [k |-> k, v |-> v])

\* [x] * n
Repeat(x, n) == [i \in 1..n |-> x]

\* sep.join(strs)
RECURSIVE Join(_, _)
Join(strs, sep) ==
    IF strs = <<>> THEN EmptyStr
    ELSE IF Len(strs) = 1 THEN strs[1]
    ELSE strs[1] \o sep \o Join(Tail(strs), sep)

\* text.count(needle) from position i on: non-overlapping occurrences
RECURSIVE CountFrom(_, _, _)
CountFrom(text, needle, i) ==
    IF i + Len(needle) - 1 > Len(text) THEN 0
    ELSE IF SubSeq(text, i, i + Len(needle) - 1) = needle
         THEN 1 + CountFrom(text, needle, i + Len(needle))
         ELSE CountFrom(text, needle, i + 1)

Count(text, needle) == CountFrom(text, needle, 1)

(***************************************************************************)
(* json.loads on the argument payloads of tool calls.  A payload is a      *)
(* tagged Python value: a str (the encoded text, a sequence of tokens), or *)
(* the dict or int it decodes to.                                          *)
(***************************************************************************)
JsonText(text) == [t |-> "str", text |-> text]
JsonDict(entries) == [t |-> "dict", entries |-> entries]
JsonInt(n) == [t |-> "int", n |-> n]

\* the tokens of the encoded texts: numbers and quoted keys
JsonNumbers == [n \in {"1", "2"} |-> IF n = "1" THEN 1 ELSE 2]
JsonKeys == [k \in {"\"a\"", "\"b\""} |-> IF k = "\"a\"" THEN "a" ELSE "b"]

\* json.loads(s): TypeError unless s is a str, JSONDecodeError unless the
\* text is a number, {} or {"key": number}
JsonLoads(s) ==
    IF s.t # "str" THEN [raised |-> "TypeError", value |-> s]
    ELSE LET x == s.text
         IN  CASE Len(x) = 1 /\ x[1] \in DOMAIN JsonNumbers
                    -> [raised |-> "none", value |-> JsonInt(JsonNumbers[x[1]])]
               [] Len(x) = 2 /\ x[1] = "{" /\ x[2] = "}"
                    -> [raised |-> "none", value |-> JsonDict(<<>>)]
               [] Len(x) = 5 /\ x[1] = "{" /\ x[2] \in DOMAIN JsonKeys
                     /\ x[3] = ":" /\ x[4] \in DOMAIN JsonNumbers /\ x[5] = "}"
                    -> [raised |-> "none",
                        value |-> JsonDict(<<[k |-> JsonKeys[x[2]],
                                              v |-> JsonInt(JsonNumbers[x[4]])]>>)]
               [] OTHER -> [raised |-> "JSONDecodeError", value |-> s]

(***************************************************************************)
(* BaseMultiModalItemTracker._placeholder_str                              *)
(***************************************************************************)
LlavaTypes == {"llava", "llava_next", "llava_next_video", "llava_onevision"}

\* tokenizer.decode(token_index), memoized by _cached_token_str
CachedTokenStr(token_index) == <<"<" \o token_index \o ">">>

Placeholder(s) == [raised |-> FALSE, isNone |-> FALSE, s |-> s]
NoPlaceholder == [raised |-> FALSE, isNone |-> TRUE, s |-> EmptyStr]
UnknownModelType == [raised |-> TRUE, isNone |-> TRUE, s |-> EmptyStr]

ImagePlaceholderStr(mtype, current_count) ==
    CASE mtype = "chatglm" -> Placeholder(<<"<|begin_of_image|><|endoftext|><|end_of_image|>">>)
      [] mtype = "phi3_v" -> Placeholder(<<"<|image_" \o ToString(current_count) \o "|>">>)
      [] mtype = "phi4mm" -> Placeholder(<<"<|endoftext10|>">>)
      [] mtype \in {"minicpmo", "minicpmv"} -> Placeholder(<<"(<image>./</image>)">>)
      [] mtype \in {"blip-2", "fuyu", "paligemma", "pixtral"} -> NoPlaceholder
      [] mtype = "qwen" -> Placeholder(<<"Picture " \o ToString(current_count) \o ": <img></img>">>)
      [] mtype \in LlavaTypes -> Placeholder(CachedTokenStr("image"))
      [] mtype \in {"chameleon", "deepseek_vl_v2", "internvl_chat", "NVLM_D", "h2ovl_chat"}
            -> Placeholder(<<"<image>">>)
      [] mtype = "mllama" -> Placeholder(<<"<|image|>">>)
      [] mtype \in {"qwen2_vl", "qwen2_5_vl"} -> Placeholder(<<"<|vision_start|><|image_pad|><|vision_end|>">>)
      [] mtype = "molmo" -> Placeholder(EmptyStr)
      [] mtype = "idefics3" -> Placeholder(<<"<image>">>)
      [] mtype = "aria" -> Placeholder(<<"<|fim_prefix|><|img|><|fim_suffix|>">>)
      [] mtype = "gemma3" -> Placeholder(<<"<start_of_image>">>)
      [] OTHER -> UnknownModelType

AudioPlaceholderStr(mtype, current_count) ==
    CASE mtype = "ultravox" -> Placeholder(<<"<|audio|>">>)
      [] mtype = "phi4mm" -> Placeholder(<<"<|endoftext11|>">>)
      [] mtype = "qwen2_audio"
            -> Placeholder(<<"Audio " \o ToString(current_count) \o ": <|audio_bos|><|AUDIO|><|audio_eos|>">>)
      [] mtype = "minicpmo" -> Placeholder(<<"(<audio>./</audio>)">>)
      [] OTHER -> UnknownModelType

VideoPlaceholderStr(mtype) ==
    CASE mtype \in {"qwen2_vl", "qwen2_5_vl"} -> Placeholder(<<"<|vision_start|><|video_pad|><|vision_end|>">>)
      [] mtype \in {"minicpmo", "minicpmv"} -> Placeholder(<<"(<video>./</video>)">>)
      [] mtype \in LlavaTypes -> Placeholder(CachedTokenStr("video"))
      [] OTHER -> UnknownModelType

PlaceholderStr(mtype, modality, current_count) ==
    CASE modality \in {"image", "image_embeds"} -> ImagePlaceholderStr(mtype, current_count)
      [] modality = "audio" -> AudioPlaceholderStr(mtype, current_count)
      [] modality = "video" -> VideoPlaceholderStr(mtype)
      [] OTHER -> UnknownModelType

(***************************************************************************)
(* BaseMultiModalItemTracker.add                                           *)
(***************************************************************************)
\* self._allowed_items.get(modality, 1)
AllowedCount(limits, modality) == Get(limits, modality, 1)

\* the guard of the "At most ... may be provided" error
ExceedsLimitOffByOne(current_count, allowed_count) == current_count >= allowed_count
ExceedsLimit(current_count, allowed_count) == current_count > allowed_count

\* self._items_by_modality[modality] on the defaultdict: a missing key is
\* inserted with an empty list
Touch(items, modality) ==
    IF DictHas(items, modality) THEN items
    ELSE Append(items, [k |-> modality, v |-> <<>>])

\* add(modality, item): the tracker's items afterwards, the exception raised
\* ("none" when it returns) and the placeholder returned
TrackerAdd(items, limits, mtype, modality, item) ==
    LET touched == Touch(items, modality)
        allowed_count == AllowedCount(limits, modality)
        current_count == Len(DictGet(touched, modality)) + 1
    IN  IF ExceedsLimit(current_count, allowed_count)
        THEN [items |-> touched, raised |-> "LimitExceeded",
              placeholder |-> NoPlaceholder, current_count |-> current_count]
        ELSE LET appended == DictSet(touched, modality,
                                     Append(DictGet(touched, modality), item))
                 placeholder == PlaceholderStr(mtype, modality, current_count)
             IN  [items |-> appended,
                  raised |-> IF placeholder.raised THEN "ConfigurationGap" ELSE "none",
                  placeholder |-> placeholder, current_count |-> current_count]

\* BaseMultiModalContentParser._add_placeholder
AddPlaceholder(counts, placeholder) ==
    IF ~placeholder.isNone /\ placeholder.s # EmptyStr
    THEN DictSet(counts, placeholder.s,
                 (IF DictHas(counts, placeholder.s)
                  THEN DictGet(counts, placeholder.s) ELSE 0) + 1)
    ELSE counts

(***************************************************************************)
(* The media-retrieval collaborator (MediaConnector).  A fetch of the      *)
(* locator BadLocator fails, in the blocking and in the deferred form.     *)
(***************************************************************************)
BadLocator == <<"bad">>
FetchFails(loc) == loc = BadLocator

\* what a tracker holds: a retrieved value (blocking), or a pending
\* computation (a coroutine, or an asyncio.Future with or without a result)
Value(kind, loc) == [kind |-> kind, src |-> loc, pend |-> "value"]
Coroutine(kind, loc) == [kind |-> kind, src |-> loc, pend |-> "coro"]
Future(kind, loc, hasResult) ==
    [kind |-> kind, src |-> loc,
     pend |-> IF hasResult THEN "future_set" ELSE "future_unset"]

\* the value a pending computation resolves to
Resolved(item) == Value(item.kind, item.src)

(***************************************************************************)
(* MultiModalContentParser / AsyncMultiModalContentParser.  Each parse_*   *)
(* yields the tracker's items and the parser's placeholder counts          *)
(* afterwards, the exception raised ("none" when it returns), and the      *)
(* calls of add and of the collaborator it made.                           *)
(***************************************************************************)
Outcome(items, counts, raised, adds, fetches) ==
    [items |-> items, counts |-> counts, raised |-> raised,
     adds |-> adds, fetches |-> fetches]

AddEntry(modality, added) ==
    [modality |-> modality, msg |-> nmsgs, raised |-> added.raised,
     placeholder |-> added.placeholder]

\* placeholder = self._tracker.add(modality, item)
\* self._add_placeholder(placeholder)
AddAndCount(items, counts, modality, item, fetches) ==
    LET added == TrackerAdd(items, limit_per_prompt, model_type, modality, item)
    IN  Outcome(added.items,
                IF added.raised = "none"
                THEN AddPlaceholder(counts, added.placeholder) ELSE counts,
                added.raised, <<AddEntry(modality, added)>>, fetches)

\* MultiModalContentParser.parse_image / parse_audio / parse_video
SyncParseMedia(items, counts, modality, loc) ==
    IF FetchFails(loc)
    THEN Outcome(items, counts, "FetchError", <<>>, <<loc>>)
    ELSE AddAndCount(items, counts, modality, Value(modality, loc), <<loc>>)

\* AsyncMultiModalContentParser.parse_image / parse_audio / parse_video
AsyncParseMedia(items, counts, modality, loc) ==
    AddAndCount(items, counts, modality, Coroutine(modality, loc), <<>>)

\* MultiModalContentParser.parse_image_embeds
SyncParseImageEmbeds(items, counts, image_embeds) ==
    IF image_embeds.tag \in {"dict", "str"}
    THEN IF FetchFails(image_embeds.s)
         THEN Outcome(items, counts, "FetchError", <<>>, <<image_embeds.s>>)
         ELSE AddAndCount(items, counts, "image_embeds",
                          Value(image_embeds.tag, image_embeds.s),
                          <<image_embeds.s>>)
    ELSE \* neither branch assigns placeholder
         Outcome(items, counts, "UnboundLocalError", <<>>, <<>>)

\* AsyncMultiModalContentParser.parse_image_embeds
AsyncParseImageEmbeds(items, counts, image_embeds) ==
    IF image_embeds.tag \in {"dict", "str"}
    THEN IF FetchFails(image_embeds.s)
         THEN Outcome(items, counts, "FetchError", <<>>, <<image_embeds.s>>)
         ELSE AddAndCount(items, counts, "image_embeds",
                          Future(image_embeds.tag, image_embeds.s, TRUE),
                          <<image_embeds.s>>)
    ELSE \* the future is added without a result
         AddAndCount(items, counts, "image_embeds",
                     Future(image_embeds.tag, image_embeds.s, FALSE), <<>>)

ParseMedia(d, items, counts, modality, loc) ==
    IF d = "sync" THEN SyncParseMedia(items, counts, modality, loc)
    ELSE AsyncParseMedia(items, counts, modality, loc)

ParseImageEmbeds(d, items, counts, image_embeds) ==
    IF d = "sync" THEN SyncParseImageEmbeds(items, counts, image_embeds)
    ELSE AsyncParseImageEmbeds(items, counts, image_embeds)

(***************************************************************************)
(* _get_full_multimodal_text_prompt                                        *)
(***************************************************************************)
\* if placeholder_counts[placeholder] < 0: raise
MorePlaceholdersThanItemsLax(remaining) == remaining < -1
MorePlaceholdersThanItems(remaining) == remaining < 0

\* the loop over placeholder_counts: the exception, or missing_placeholders
RECURSIVE MissingPlaceholders(_, _)
MissingPlaceholders(counts, text_prompt) ==
    IF counts = <<>> THEN [raised |-> FALSE, missing |-> <<>>]
    ELSE LET placeholder == Head(counts).k
             remaining == Head(counts).v - Count(text_prompt, placeholder)
         IN  IF MorePlaceholdersThanItems(remaining)
             THEN [raised |-> TRUE, missing |-> <<>>]
             ELSE LET rest == MissingPlaceholders(Tail(counts), text_prompt)
                  IN  [raised |-> rest.raised,
                       missing |-> Repeat(placeholder, remaining) \o rest.missing]

\* "\n".join(missing_placeholders + [text_prompt])
JoinPromptAtBack(missing, text_prompt) == Join(<<text_prompt>> \o missing, NL)
JoinPrompt(missing, text_prompt) == Join(missing \o <<text_prompt>>, NL)

GetFullMultimodalTextPrompt(counts, text_prompt) ==
    LET m == MissingPlaceholders(counts, text_prompt)
    IN  IF m.raised THEN [raised |-> "PlaceholderAccounting", text |-> EmptyStr]
        ELSE [raised |-> "none", text |-> JoinPrompt(m.missing, text_prompt)]

(***************************************************************************)
(* Content parts.  A part is a dict, or a bare string [bare |-> s].  The   *)
(* content parsed from a part is                                           *)
(* tagged with its Python type: "str", "dict", "other" (neither); s is the *)
(* string, or what stands for the entries of the dict (empty for {}).      *)
(***************************************************************************)
Tagged(tag, s) == [tag |-> tag, s |-> s]

\* a dict content: an InputAudio, or a whole part
DictContent(d) ==
    [tag |-> "dict", s |-> IF DOMAIN d = {} THEN EmptyStr ELSE <<"{...}">>,
     d |-> d]

MM_PARSER_MAP_KEYS ==
    {"text", "image_url", "image_embeds", "audio_url", "input_audio",
     "refusal", "video_url"}

\* MM_PARSER_MAP[part_type](part)
MmParse(part_type, part) ==
    CASE part_type = "text" -> Tagged("str", Get(part, "text", EmptyStr))
      [] part_type = "refusal" -> Tagged("str", Get(part, "refusal", EmptyStr))
      [] part_type = "image_url"
            -> Tagged("str", Get(Get(part, "image_url", EmptyDict), "url", EmptyStr))
      [] part_type = "audio_url"
            -> Tagged("str", Get(Get(part, "audio_url", EmptyDict), "url", EmptyStr))
      [] part_type = "video_url"
            -> Tagged("str", Get(Get(part, "video_url", EmptyDict), "url", EmptyStr))
      [] part_type = "image_embeds"
            -> Get(part, "image_embeds", Tagged("dict", EmptyStr))
      [] part_type = "input_audio"
            -> DictContent(Get(part, "input_audio", [k \in {} |-> EmptyStr]))
      [] OTHER -> Tagged("other", EmptyStr)

VALID_MESSAGE_CONTENT_MM_PART_TYPES ==
    {"text", "refusal", "image_url", "image_embeds", "audio_url",
     "input_audio", "video_url"}

\* "not content"
FalsyNever(c) == FALSE
Falsy(c) == c.s = EmptyStr

\* what _parse_chat_message_content_part returns
NoResult == [some |-> FALSE, val |-> [str |-> EmptyStr]]
StrResult(s) == [some |-> TRUE, val |-> [str |-> s]]
TextDict(s) == [some |-> TRUE, val |-> [type |-> "text", text |-> s]]
Marker(kind) == [some |-> TRUE, val |-> [type |-> kind]]

\* {"type": kind} if wrap_dicts else None
MarkerOrNone(kind, wrap_dicts) == IF wrap_dicts THEN Marker(kind) ELSE NoResult

PartOutcome(o, res) ==
    [items |-> o.items, counts |-> o.counts, raised |-> o.raised,
     adds |-> o.adds, fetches |-> o.fetches,
     res |-> IF o.raised = "none" THEN res ELSE NoResult]

\* type tags that are no str: the symbol stands for a value such as 7
NonStrTypes == {"<int 7>"}

\* isinstance(part_type, str)
IsInstanceStr(part_type) == part_type \notin NonStrTypes

\* _parse_chat_message_content_mm_part: (part_type, content), or the exception
ParseChatMessageContentMmPart(part) ==
    IF "type" \in DOMAIN part /\ IsInstanceStr(part.type)
          /\ part.type \in MM_PARSER_MAP_KEYS
    THEN [raised |-> "none", part_type |-> part.type,
          content |-> MmParse(part.type, part)]
    ELSE IF "type" \notin DOMAIN part
    THEN CASE "image_url" \in DOMAIN part
                -> [raised |-> "none", part_type |-> "image_url",
                    content |-> Tagged("str", part.image_url)]
           [] "audio_url" \in DOMAIN part
                -> [raised |-> "none", part_type |-> "audio_url",
                    content |-> Tagged("str", part.audio_url)]
           [] "input_audio" \in DOMAIN part
                -> [raised |-> "none", part_type |-> "input_audio",
                    content |-> DictContent(part)]
           [] "video_url" \in DOMAIN part
                -> [raised |-> "none", part_type |-> "video_url",
                    content |-> Tagged("str", part.video_url)]
           [] OTHER
                -> [raised |-> "SchemaViolationMissingType", part_type |-> "",
                    content |-> Tagged("str", EmptyStr)]
    ELSE IF ~IsInstanceStr(part.type)
    THEN [raised |-> "SchemaViolationInvalidType", part_type |-> "",
          content |-> Tagged("str", EmptyStr)]
    ELSE [raised |-> "none", part_type |-> part.type,
          content |-> Tagged("str", <<"unknown part_type content">>)]

\* parse_input_audio: the data URL made of the InputAudio, then parse_audio
AudioDataUrl(input_audio) ==
    <<"data:audio/">> \o Get(input_audio, "format", EmptyStr)
        \o <<";base64,">> \o Get(input_audio, "data", EmptyStr)

\* _parse_chat_message_content_part, for driver d
ParseChatMessageContentPart(d, items, counts, part, wrap_dicts) ==
    LET mm == ParseChatMessageContentMmPart(part)
        part_type == mm.part_type
        c == mm.content
        skip == Outcome(items, counts, "none", <<>>, <<>>)
    IN  IF "bare" \in DOMAIN part
        THEN PartOutcome(skip, StrResult(part.bare))
        ELSE IF mm.raised # "none"
        THEN PartOutcome(Outcome(items, counts, mm.raised, <<>>, <<>>), NoResult)
        ELSE IF part_type \in VALID_MESSAGE_CONTENT_MM_PART_TYPES /\ Falsy(c)
        THEN PartOutcome(skip, NoResult)
        ELSE CASE part_type \in {"text", "refusal"}
                    -> PartOutcome(skip, IF wrap_dicts THEN TextDict(c.s)
                                         ELSE StrResult(c.s))
               [] part_type = "image_url"
                    -> PartOutcome(ParseMedia(d, items, counts, "image", c.s),
                                   MarkerOrNone("image", wrap_dicts))
               [] part_type = "image_embeds"
                    -> PartOutcome(ParseImageEmbeds(d, items, counts, c),
                                   MarkerOrNone("image", wrap_dicts))
               [] part_type = "audio_url"
                    -> PartOutcome(ParseMedia(d, items, counts, "audio", c.s),
                                   MarkerOrNone("audio", wrap_dicts))
               [] part_type = "input_audio"
                    -> PartOutcome(ParseMedia(d, items, counts, "audio",
                                              AudioDataUrl(c.d)),
                                   MarkerOrNone("audio", wrap_dicts))
               [] part_type = "video_url"
                    -> PartOutcome(ParseMedia(d, items, counts, "video", c.s),
                                   MarkerOrNone("video", wrap_dicts))
               [] OTHER
                    -> PartOutcome(Outcome(items, counts, "NotImplementedError",
                                           <<>>, <<>>), NoResult)

\* "if parse_res:" in _parse_chat_message_content_parts
Truthy(res) ==
    /\ res.some
    /\ "str" \in DOMAIN res.val => res.val.str # EmptyStr

(***************************************************************************)
(* MultiModalItemTracker.all_mm_data / AsyncMultiModalItemTracker          *)
(* .all_mm_data: the checks and the payload built from the (resolved)      *)
(* items.                                                                  *)
(***************************************************************************)
NoData == [status |-> "none", raised |-> "none", isNone |-> TRUE, value |-> <<>>]
PendingData == [status |-> "pending", raised |-> "none", isNone |-> TRUE, value |-> <<>>]
AwaitingData == [status |-> "awaiting", raised |-> "none", isNone |-> TRUE, value |-> <<>>]
RaisedData(kind) == [status |-> "raised", raised |-> kind, isNone |-> TRUE, value |-> <<>>]
NoneData == [status |-> "done", raised |-> "none", isNone |-> TRUE, value |-> <<>>]
Data(value) == [status |-> "done", raised |-> "none", isNone |-> FALSE, value |-> value]

\* "image" in items_by_modality and "image_embeds" in items_by_modality
MixesImageAndEmbedsNever(ibm) == FALSE
MixesImageAndEmbeds(ibm) == DictHas(ibm, "image") /\ DictHas(ibm, "image_embeds")

\* len(image_embeds_lst) > 1
SeveralEmbeds(image_embeds_lst) == Len(image_embeds_lst) > 1

\* mm_inputs: "image" is one embedding or the list of images
MmInputs(ibm) ==
    LET keys == {k \in {"image", "audio", "video"} :
                    \/ DictHas(ibm, k)
                    \/ k = "image" /\ DictHas(ibm, "image_embeds")}
    IN  [k \in keys |->
            IF k = "image" /\ ~DictHas(ibm, "image")
            THEN [single |-> TRUE, items |-> <<DictGet(ibm, "image_embeds")[1]>>]
            ELSE [single |-> FALSE, items |-> DictGet(ibm, k)]]

\* the body of all_mm_data after "if not self._items_by_modality"
CheckedMmData(ibm) ==
    IF MixesImageAndEmbeds(ibm) THEN RaisedData("MixedModality")
    ELSE IF DictHas(ibm, "image_embeds") /\ SeveralEmbeds(DictGet(ibm, "image_embeds"))
    THEN RaisedData("MixedModality")
    ELSE IF DictHas(ibm, "image_embeds") /\ DictGet(ibm, "image_embeds") = <<>>
    THEN RaisedData("IndexError")
    ELSE Data(MmInputs(ibm))

\* MultiModalItemTracker.all_mm_data
SyncAllMmData(ibm) == IF ibm = <<>> THEN NoneData ELSE CheckedMmData(ibm)

\* asyncio.gather without return_exceptions: the first exception of a task
\* is raised in the coroutine awaiting the gather
GatherAfterTaskSwallow(data, failed) == data
GatherAfterTask(data, failed) ==
    IF failed /\ data.status = "awaiting" THEN RaisedData("FetchError") ELSE data

\* the list asyncio.gather returns: the results in the order of the
\* awaitables passed, whatever the order of completion
GatherResultsAsCompleted(items, completed) ==
    LET rest == SelectSeq([i \in 1..Len(items) |-> i],
                          LAMBDA i : \A n \in 1..Len(completed) : completed[n] # i)
        order == completed \o rest
    IN  [n \in 1..Len(items) |-> Resolved(items[order[n]])]
GatherResults(items, completed) == [i \in 1..Len(items) |-> Resolved(items[i])]

\* asyncio.gather(*items): the tasks it creates
StartTasks(items) ==
    [i \in 1..Len(items) |->
        CASE items[i].pend = "coro" -> "running"
          [] items[i].pend = "future_unset" -> "unset"
          [] OTHER -> "done"]

(***************************************************************************)
(* The inputs of a request.                                                *)
(***************************************************************************)
ModelTypes == {"minicpmo", "phi3_v", "fuyu"}

\* limit_per_prompt: nothing configured, or images and embeddings limited to
\* none or to MaxLimit
LimitConfigs ==
    {[m \in {} |-> 0]}
        \cup {[m \in {"image", "image_embeds"} |-> n] : n \in {0, MaxLimit}}

ContentFormats == {"string", "openai"}
Roles == {"user"}

Body == <<"Describe these.">>
Locators == {EmptyStr, <<"u1">>, <<"u2">>, BadLocator}

\* texts: plain, and the literal placeholder of the first image
LiteralPlaceholders(mtype) ==
    LET p == ImagePlaceholderStr(mtype, 1)
    IN  IF p.isNone \/ p.s = EmptyStr THEN {} ELSE {p.s}

Texts(mtype) == {Body} \cup LiteralPlaceholders(mtype)

TextParts(mtype) == {[type |-> "text", text |-> t] : t \in Texts(mtype)}
ImageParts == {[type |-> "image_url", image_url |-> [url |-> l]] : l \in Locators}
ImageEmbedsParts ==
    {[type |-> "image_embeds", image_embeds |-> e] :
        e \in {Tagged("str", <<"e1">>), Tagged("other", <<"x">>)}}
AudioParts == {[type |-> "audio_url", audio_url |-> [url |-> <<"u1">>]]}

Parts(mtype) == TextParts(mtype) \cup ImageParts \cup ImageEmbedsParts \cup AudioParts

\* parts of every shape the schema allows or forbids: texts (one of them
\* empty), a refusal, a bare string, an image, an image without locator, a
\* part without type, and parts whose type is unknown or no str
SchemaParts ==
    {[type |-> "text", text |-> Body],
     [type |-> "text", text |-> EmptyStr],
     [type |-> "refusal", refusal |-> <<"I cannot.">>],
     [bare |-> <<"Hello.">>],
     [type |-> "image_url", image_url |-> [url |-> <<"u1">>]],
     [type |-> "image_url", image_url |-> [url |-> EmptyStr]],
     [text |-> Body],
     [type |-> "file", file |-> <<"f1">>],
     [type |-> "<int 7>", text |-> Body]}

\* parts without type that carry one media field, and the typed part of the
\* same kind: a locator is wrapped as {url: locator}, an InputAudio is kept
LegacyParts ==
    {[image_url |-> <<"u1">>],
     [audio_url |-> <<"u1">>],
     [input_audio |-> [data |-> <<"d">>, format |-> <<"wav">>]],
     [video_url |-> <<"u1">>]}

Typed(part) ==
    CASE "image_url" \in DOMAIN part
            -> [type |-> "image_url", image_url |-> [url |-> part.image_url]]
      [] "audio_url" \in DOMAIN part
            -> [type |-> "audio_url", audio_url |-> [url |-> part.audio_url]]
      [] "input_audio" \in DOMAIN part
            -> [type |-> "input_audio", input_audio |-> part.input_audio]
      [] OTHER
            -> [type |-> "video_url", video_url |-> [url |-> part.video_url]]

TypedParts == {Typed(part) : part \in LegacyParts}

\* input messages without their content: a tool call carries its arguments
\* as encoded text, well-formed or not
ToolCall(arguments) ==
    [id |-> "call_1", type |-> "function",
     function |-> [name |-> "f", arguments |-> arguments]]

GoodArguments == JsonText(<<"{", "\"a\"", ":", "1", "}">>)
BadArguments == JsonText(<<"{", "\"a\"">>)

UserMessages == {[role |-> r] : r \in Roles}

Messages ==
    UserMessages
        \cup {[role |-> "user", name |-> "n", tool_calls |-> <<>>],
              [role |-> "tool", tool_call_id |-> "call_1"],
              [role |-> "assistant", tool_calls |-> <<ToolCall(GoodArguments)>>],
              [role |-> "assistant",
               tool_calls |-> <<ToolCall(JsonText(<<"2">>)),
                                ToolCall(BadArguments)>>]}

(***************************************************************************)
(* parse_chat_messages and parse_chat_messages_futures, fed the same       *)
(* messages part by part.  A driver that raised takes no further step.     *)
(***************************************************************************)
Running(d) == run[d] = "running"
SomeRunning == \E d \in Drivers : Running(d)
NoError == [kind |-> "none", stage |-> "none"]

\* conversation = []; mm_tracker = (Async)MultiModalItemTracker(...)
ReqStart ==
    /\ pc = "messages"
    /\ role = "none"
    /\ nmsgs = 0
    /\ nparts = 0
    /\ run = [d \in Drivers |-> "running"]
    /\ error = [d \in Drivers |-> NoError]
    /\ items_by_modality = [d \in Drivers |-> <<>>]
    /\ placeholder_counts = [d \in Drivers |-> <<>>]
    /\ content = [d \in Drivers |-> <<>>]
    /\ conversation = [d \in Drivers |-> <<>>]
    /\ mm_data = [d \in Drivers |-> NoData]
    /\ gather_idx = 0
    /\ tasks = <<>>
    /\ gathered = <<>>
    /\ input = <<>>
    /\ cur_msg = [d \in Drivers |-> 0]
    /\ add_log = [d \in Drivers |-> <<>>]
    /\ fetch_log = [d \in Drivers |-> <<>>]
    /\ completion = <<>>
    /\ messages = [d \in Drivers |-> <<>>]
    /\ original = <<>>
    /\ pass = 1
    /\ first_parse = [d \in Drivers |-> [returned |-> FALSE, conversation |-> <<>>]]

ReqInit ==
    /\ model_type \in ModelTypes
    /\ limit_per_prompt \in LimitConfigs
    /\ content_format \in ContentFormats
    /\ ReqStart

\* for msg in messages: role = message["role"] ...
\* mm_parser = mm_tracker.create_parser().  The first parse is fed a new
\* message; a second parse reads the caller's list again.
BeginMessage(message) ==
    /\ pc = "messages"
    /\ SomeRunning
    /\ IF pass = 1
       THEN /\ nmsgs < MaxMessages
            /\ nparts < MaxParts
            /\ messages' = [d \in Drivers |-> Append(messages[d], message)]
            /\ original' = Append(original, message)
       ELSE /\ nmsgs < Len(original)
            /\ message = original[nmsgs + 1]
            /\ UNCHANGED <<messages, original>>
    /\ pc' = "parts"
    /\ role' = message.role
    /\ nmsgs' = nmsgs + 1
    /\ placeholder_counts' =
          [d \in Drivers |-> IF Running(d) THEN <<>> ELSE placeholder_counts[d]]
    /\ content' = [d \in Drivers |-> IF Running(d) THEN <<>> ELSE content[d]]
    /\ cur_msg' = [d \in Drivers |-> IF Running(d) THEN nmsgs + 1 ELSE cur_msg[d]]
    /\ UNCHANGED <<anvars, fmtvars>>
    /\ UNCHANGED <<model_type, limit_per_prompt, content_format, nparts, run,
                   error, items_by_modality, conversation, mm_data, gather_idx,
                   tasks, gathered, input, add_log, fetch_log, completion,
                   pass, first_parse>>

\* for part in parts: parse_res = _parse_chat_message_content_part(...)
ParsePart(part) ==
    /\ pc = "parts"
    /\ SomeRunning
    /\ IF pass = 1
       THEN /\ nparts < MaxParts
            /\ input' = Append(input, [msg |-> nmsgs, part |-> part])
       ELSE /\ nparts < Len(input)
            /\ input[nparts + 1] = [msg |-> nmsgs, part |-> part]
            /\ UNCHANGED input
    /\ nparts' = nparts + 1
    /\ LET o == [d \in Drivers |->
                    ParseChatMessageContentPart(d, items_by_modality[d],
                        placeholder_counts[d], part, content_format = "openai")]
       IN  /\ items_by_modality' =
                 [d \in Drivers |-> IF Running(d) THEN o[d].items
                                    ELSE items_by_modality[d]]
           /\ placeholder_counts' =
                 [d \in Drivers |-> IF Running(d) THEN o[d].counts
                                    ELSE placeholder_counts[d]]
           /\ content' =
                 [d \in Drivers |->
                    IF Running(d) /\ o[d].raised = "none" /\ Truthy(o[d].res)
                    THEN Append(content[d], o[d].res.val) ELSE content[d]]
           /\ run' =
                 [d \in Drivers |->
                    IF Running(d) /\ o[d].raised # "none" THEN "raised" ELSE run[d]]
           /\ error' =
                 [d \in Drivers |->
                    IF Running(d) /\ o[d].raised # "none"
                    THEN [kind |-> o[d].raised, stage |-> "part"] ELSE error[d]]
           /\ add_log' =
                 [d \in Drivers |-> IF Running(d) THEN add_log[d] \o o[d].adds
                                    ELSE add_log[d]]
           /\ fetch_log' =
                 [d \in Drivers |-> IF Running(d) THEN fetch_log[d] \o o[d].fetches
                                    ELSE fetch_log[d]]
    /\ UNCHANGED <<anvars, fmtvars>>
    /\ UNCHANGED <<model_type, limit_per_prompt, content_format, pc, role, nmsgs,
                   conversation, mm_data, gather_idx, tasks, gathered, cur_msg,
                   completion, msgvars>>

\* the end of _parse_chat_message_content_parts: the message's content, or
\* the exception of _get_full_multimodal_text_prompt
MessageContent(parts_content, counts, wrap_dicts) ==
    IF wrap_dicts THEN [raised |-> "none", content |-> parts_content]
    ELSE LET texts == [i \in 1..Len(parts_content) |-> parts_content[i].str]
             text_prompt == Join(texts, NL)
         IN  IF counts # <<>>
             THEN LET full == GetFullMultimodalTextPrompt(counts, text_prompt)
                  IN  [raised |-> full.raised, content |-> full.text]
             ELSE [raised |-> "none", content |-> text_prompt]

\* the role-specific fields _parse_chat_message_content copies onto the
\* result: list(parsed_msg["tool_calls"]) is a new list of the same tool
\* call dicts, kept here as a reference to the input message holding them
ResultMsg(index, message, msg_content) ==
    [role |-> message.role, content |-> msg_content]
      @@ (IF message.role = "assistant" /\ "tool_calls" \in DOMAIN message
          THEN [tool_calls |-> [ref |-> index]] ELSE <<>>)
      @@ (IF message.role = "tool" /\ "tool_call_id" \in DOMAIN message
          THEN [tool_call_id |-> message.tool_call_id] ELSE <<>>)
      @@ (IF "name" \in DOMAIN message THEN [name |-> message.name] ELSE <<>>)

\* the condition of _postprocess_messages on a message
NeedsDecodingNever(message) == FALSE
NeedsDecoding(message) ==
    message.role = "assistant" /\ "tool_calls" \in DOMAIN message

\* _postprocess_messages from tool call j of message i on: the caller's
\* messages afterwards (the tool call dicts are theirs), and the exception
RECURSIVE Postprocess(_, _, _, _)
Postprocess(conv, msgs, i, j) ==
    IF i > Len(conv) THEN [raised |-> "none", messages |-> msgs]
    ELSE IF ~NeedsDecoding(conv[i]) THEN Postprocess(conv, msgs, i + 1, 1)
    ELSE LET ref == conv[i].tool_calls.ref
             tool_calls == msgs[ref].tool_calls
         IN  IF j > Len(tool_calls) THEN Postprocess(conv, msgs, i + 1, 1)
             ELSE LET loaded == JsonLoads(tool_calls[j].function.arguments)
                  IN  IF loaded.raised # "none"
                      THEN [raised |-> loaded.raised, messages |-> msgs]
                      ELSE Postprocess(conv,
                               [msgs EXCEPT ![ref].tool_calls[j].function.arguments
                                                = loaded.value],
                               i, j + 1)

\* a conversation as its holder reads it: each tool_calls list with the
\* tool call dicts it refers to
Canonical(conv, msgs) ==
    [i \in 1..Len(conv) |->
        IF "tool_calls" \in DOMAIN conv[i]
        THEN [conv[i] EXCEPT !.tool_calls = msgs[conv[i].tool_calls.ref].tool_calls]
        ELSE conv[i]]

\* return [ConversationMessage(role=role, content=...)]; the fields of the
\* message are copied; conversation.extend
EndMessage ==
    /\ pc = "parts"
    /\ SomeRunning
    /\ IF pass = 1 THEN \E i \in 1..Len(input) : input[i].msg = nmsgs
       ELSE IF nparts = Len(input) THEN TRUE
            ELSE input[nparts + 1].msg # nmsgs
    /\ pc' = "messages"
    /\ LET m == [d \in Drivers |->
                    MessageContent(content[d], placeholder_counts[d],
                                   content_format = "openai")]
       IN  /\ conversation' =
                 [d \in Drivers |->
                    IF Running(d) /\ m[d].raised = "none"
                    THEN Append(conversation[d],
                                ResultMsg(nmsgs, messages[d][nmsgs],
                                          m[d].content))
                    ELSE conversation[d]]
           /\ run' =
                 [d \in Drivers |->
                    IF Running(d) /\ m[d].raised # "none" THEN "raised" ELSE run[d]]
           /\ error' =
                 [d \in Drivers |->
                    IF Running(d) /\ m[d].raised # "none"
                    THEN [kind |-> m[d].raised, stage |-> "message"] ELSE error[d]]
    /\ UNCHANGED <<anvars, fmtvars>>
    /\ UNCHANGED <<model_type, limit_per_prompt, content_format, role, nmsgs,
                   nparts, items_by_modality, placeholder_counts, content,
                   mm_data, gather_idx, tasks, gathered, input, cur_msg,
                   add_log, fetch_log, completion, msgvars>>

\* _postprocess_messages(conversation), then
\* return conversation, mm_tracker.all_mm_data(): the blocking driver runs
\* all_mm_data, the concurrent driver hands back its coroutine
Return ==
    /\ pc = "messages"
    /\ SomeRunning
    /\ pass = 2 => nmsgs = Len(original)
    /\ pc' = "returned"
    /\ LET post == [d \in Drivers |-> Postprocess(conversation[d], messages[d], 1, 1)]
           s == SyncAllMmData(items_by_modality["sync"])
           d_ == [d \in Drivers |->
                    IF post[d].raised # "none" THEN NoData
                    ELSE IF d = "sync" THEN s ELSE PendingData]
       IN  /\ messages' = [d \in Drivers |-> IF Running(d) THEN post[d].messages
                                              ELSE messages[d]]
           /\ mm_data' = [d \in Drivers |-> IF Running(d) THEN d_[d] ELSE mm_data[d]]
           /\ run' =
                 [d \in Drivers |->
                    IF ~Running(d) THEN run[d]
                    ELSE IF post[d].raised # "none" \/ d_[d].status = "raised"
                    THEN "raised" ELSE "returned"]
           /\ error' =
                 [d \in Drivers |->
                    IF Running(d) /\ post[d].raised # "none"
                    THEN [kind |-> post[d].raised, stage |-> "postprocess"]
                    ELSE IF Running(d) /\ d_[d].status = "raised"
                    THEN [kind |-> d_[d].raised, stage |-> "finalize"]
                    ELSE error[d]]
    /\ UNCHANGED <<anvars, fmtvars>>
    /\ UNCHANGED <<model_type, limit_per_prompt, content_format, role, nmsgs,
                   nparts, items_by_modality, placeholder_counts, content,
                   conversation, gather_idx, tasks, gathered, input, cur_msg,
                   add_log, fetch_log, completion, original, pass, first_parse>>

\* the caller parses the same list of messages again, before awaiting the
\* payload of the first parse: a driver that returned starts anew
ParseAgain ==
    /\ pass = 1
    /\ pc = "returned"
    /\ \E d \in Drivers : run[d] = "returned"
    /\ mm_data["async"].status \in {"none", "pending"}
    /\ pass' = 2
    /\ first_parse' = [d \in Drivers |->
                    IF run[d] = "returned"
                    THEN [returned |-> TRUE,
                          conversation |-> Canonical(conversation[d], messages[d])]
                    ELSE first_parse[d]]
    /\ pc' = "messages"
    /\ role' = "none"
    /\ nmsgs' = 0
    /\ nparts' = 0
    /\ run' = [d \in Drivers |-> IF run[d] = "returned" THEN "running" ELSE run[d]]
    /\ LET again(old, new) ==
               [d \in Drivers |-> IF run[d] = "returned" THEN new ELSE old[d]]
       IN  /\ items_by_modality' = again(items_by_modality, <<>>)
           /\ placeholder_counts' = again(placeholder_counts, <<>>)
           /\ content' = again(content, <<>>)
           /\ conversation' = again(conversation, <<>>)
           /\ mm_data' = again(mm_data, NoData)
           /\ cur_msg' = again(cur_msg, 0)
           /\ add_log' = again(add_log, <<>>)
           /\ fetch_log' = again(fetch_log, <<>>)
    /\ UNCHANGED <<anvars, fmtvars>>
    /\ UNCHANGED <<model_type, limit_per_prompt, content_format, error,
                   gather_idx, tasks, gathered, input, completion, messages,
                   original>>

(***************************************************************************)
(* Awaiting AsyncMultiModalItemTracker.all_mm_data: one asyncio.gather per *)
(* entry of _items_by_modality, in the order of the entries.               *)
(***************************************************************************)
AsyncItems == items_by_modality["async"]

\* if not self._items_by_modality: return None; else the first gather
AwaitStart ==
    /\ run["async"] = "returned"
    /\ mm_data["async"].status = "pending"
    /\ IF AsyncItems = <<>>
       THEN /\ mm_data' = [mm_data EXCEPT !["async"] = NoneData]
            /\ UNCHANGED <<gather_idx, tasks>>
       ELSE /\ mm_data' = [mm_data EXCEPT !["async"] = AwaitingData]
            /\ gather_idx' = 1
            /\ tasks' = StartTasks(AsyncItems[1].v)
    /\ UNCHANGED <<anvars, fmtvars>>
    /\ UNCHANGED <<model_type, limit_per_prompt, content_format, pc, role, nmsgs,
                   nparts, run, error, items_by_modality, placeholder_counts,
                   content, conversation, gathered, input, cur_msg, add_log,
                   fetch_log, completion, msgvars>>

\* a task of the current gather runs its fetch to completion; a failed
\* fetch makes the awaited gather raise
TaskComplete(i) ==
    /\ gather_idx > 0
    /\ i \in 1..Len(tasks)
    /\ tasks[i] = "running"
    /\ LET item == AsyncItems[gather_idx].v[i]
       IN  /\ fetch_log' = [fetch_log EXCEPT !["async"] = Append(@, item.src)]
           /\ tasks' = [tasks EXCEPT ![i] = IF FetchFails(item.src)
                                             THEN "failed" ELSE "done"]
           /\ mm_data' = [mm_data EXCEPT
                             !["async"] = GatherAfterTask(@, FetchFails(item.src))]
    /\ completion' = Append(completion, i)
    /\ UNCHANGED <<anvars, fmtvars>>
    /\ UNCHANGED <<model_type, limit_per_prompt, content_format, pc, role, nmsgs,
                   nparts, run, error, items_by_modality, placeholder_counts,
                   content, conversation, gather_idx, gathered, input, cur_msg,
                   add_log, msgvars>>

\* the current gather returns its results in the order of the items; the
\* next entry is gathered, or the checks run and mm_inputs is returned
GatherNext ==
    /\ mm_data["async"].status = "awaiting"
    /\ \A i \in 1..Len(tasks) : tasks[i] = "done"
    /\ LET entry == AsyncItems[gather_idx]
           results == GatherResults(entry.v, completion)
           all == Append(gathered, [k |-> entry.k, v |-> results])
       IN  /\ gathered' = all
           /\ IF gather_idx < Len(AsyncItems)
              THEN /\ gather_idx' = gather_idx + 1
                   /\ tasks' = StartTasks(AsyncItems[gather_idx + 1].v)
                   /\ UNCHANGED mm_data
              ELSE /\ mm_data' = [mm_data EXCEPT !["async"] = CheckedMmData(all)]
                   /\ UNCHANGED <<gather_idx, tasks>>
    /\ completion' = <<>>
    /\ UNCHANGED <<anvars, fmtvars>>
    /\ UNCHANGED <<model_type, limit_per_prompt, content_format, pc, role, nmsgs,
                   nparts, run, error, items_by_modality, placeholder_counts,
                   content, conversation, input, cur_msg, add_log, fetch_log,
                   msgvars>>

ReqNext ==
    \/ \E message \in UserMessages : BeginMessage(message)
    \/ \E part \in Parts(model_type) : ParsePart(part)
    \/ EndMessage
    \/ Return
    \/ AwaitStart
    \/ \E i \in 1..MaxParts : TaskComplete(i)
    \/ GatherNext

(***************************************************************************)
(* The chat template analyzer.  A parsed template is the sequence of its   *)
(* Assign and For nodes in the order of find_all; expressions are jinja2   *)
(* nodes.                                                                  *)
(***************************************************************************)
Name(name) == [type |-> "Name", ctx |-> "load", name |-> name]
StoreName(name) == [type |-> "Name", ctx |-> "store", name |-> name]
TupleTarget == [type |-> "Tuple"]
Const(value) == [type |-> "Const", value |-> value]
Slice == [type |-> "Slice"]
Getattr(node, attr) == [type |-> "Getattr", node |-> node, attr |-> attr]
Getitem(node, arg) == [type |-> "Getitem", node |-> node, arg |-> arg]
Filter(node) == [type |-> "Filter", node |-> node]
Assign(target, node) == [type |-> "Assign", target |-> target, node |-> node]
For(target, iter) == [type |-> "For", target |-> target, iter |-> iter]

\* key: Optional[str] = None
NoKey == ""

IsVarAccess(node, varname) ==
    node.type = "Name" /\ node.ctx = "load" /\ node.name = varname

IsAttrAccess(node, varname, key) ==
    IF node.type = "Getitem"
    THEN /\ IsVarAccess(node.node, varname)
         /\ node.arg.type = "Const"
         /\ node.arg.value = key
    ELSE IF node.type = "Getattr"
    THEN IsVarAccess(node.node, varname) /\ node.attr = key
    ELSE FALSE

RECURSIVE IsVarOrElemsAccess(_, _, _)
IsVarOrElemsAccess(node, varname, key) ==
    IF node.type \in {"Filter", "Test"}
    THEN IsVarOrElemsAccess(node.node, varname, key)
    ELSE IF node.type = "Getitem" /\ node.arg.type = "Slice"
    THEN IsVarOrElemsAccess(node.node, varname, key)
    ELSE IF key # NoKey THEN IsAttrAccess(node, varname, key)
    ELSE IsVarAccess(node, varname)

\* root.find_all(type)
FindAll(root, type) == SelectSeq(root, LAMBDA n : n.type = type)

\* assert isinstance(target, jinja2.nodes.Name) fails for one of the nodes
AssertionFails(nodes) == \E i \in 1..Len(nodes) : nodes[i].target.type # "Name"

TargetNames(nodes) == [i \in 1..Len(nodes) |-> nodes[i].target.name]

\* _detect_content_format(jinja_text, default="string")
DefaultFormat == "string"

\* one iteration of the while loop of _iter_nodes_assign_var_or_elems: the
\* names it yields are appended to the list the caller builds
BfsIteration(root, queue, yielded) ==
    LET related_varname == Head(queue)
        matching == SelectSeq(FindAll(root, "Assign"),
                        LAMBDA a : IsVarOrElemsAccess(a.node, related_varname, NoKey))
    IN  IF AssertionFails(matching)
        THEN [status |-> "raised", queue |-> queue, yielded |-> yielded]
        ELSE IF Len(yielded) + Len(matching) > MaxYields
        THEN [status |-> "exhausted", queue |-> queue, yielded |-> yielded]
        ELSE [status |-> "ok",
              queue |-> Tail(queue) \o
                        SelectSeq(TargetNames(matching),
                                  LAMBDA n : n # related_varname),
              yielded |-> yielded \o TargetNames(matching)]

\* the loops of _iter_nodes_assign_messages_item and of
\* _iter_nodes_assign_content_item that yield
MatchingLoops(root, varnames, key) ==
    SelectSeq(FindAll(root, "For"),
              LAMBDA l : \E i \in 1..Len(varnames) :
                            IsVarOrElemsAccess(l.iter, varnames[i], key))

\* the list made of what _iter_nodes_assign_messages_item yields
AssignMessagesItem(root, varnames) ==
    LET loops == MatchingLoops(root, varnames, NoKey)
    IN  IF AssertionFails(loops) THEN [raised |-> TRUE, names |-> <<>>]
        ELSE [raised |-> FALSE, names |-> TargetNames(loops)]

\* next(_iter_nodes_assign_content_item(jinja_ast)) and the except clauses
NextAssignContentItem(root, varnames, default) ==
    LET loops == MatchingLoops(root, varnames, "content")
    IN  IF loops = <<>> THEN "string"
        ELSE IF loops[1].target.type # "Name" THEN default
        ELSE "openai"

\* if jinja_ast is None: return default
WithoutAstFlat(default) == "string"
WithoutAst(default) == default

\* the result of _try_extract_ast
NoAst == [isNone |-> TRUE]
Ast(body) == [isNone |-> FALSE, body |-> body]

\* the statements templates are made of
Stmts ==
    {Assign(StoreName("a"), Name("messages")),
     Assign(StoreName("messages"), Name("a")),
     Assign(TupleTarget, Name("messages")),
     Assign(StoreName("m"), Name("message")),
     Assign(StoreName("c"), Getattr(Name("message"), "content")),
     For(StoreName("message"), Name("messages")),
     For(StoreName("message"), Name("a")),
     For(StoreName("message"), Getitem(Name("messages"), Slice)),
     For(StoreName("part"), Getattr(Name("message"), "content")),
     For(StoreName("part"), Filter(Getitem(Name("message"), Const("content")))),
     For(StoreName("part"), Getattr(Name("m"), "content")),
     For(StoreName("part"), Name("c")),
     For(StoreName("call"), Getattr(Name("message"), "tool_calls"))}

Templates ==
    UNION {{t \in [1..n -> Stmts] : \A i, j \in 1..n : i # j => t[i] # t[j]} :
              n \in 0..MaxStmts}

\* template texts: the statements they hold, and whether the text compiles
TemplateText(compiles, body) == [compiles |-> compiles, body |-> body]

TemplateTexts ==
    {TemplateText(TRUE, t) : t \in Templates}
        \cup {TemplateText(FALSE, <<>>),
              TemplateText(FALSE,
                  <<For(StoreName("message"), Name("messages")),
                    For(StoreName("part"), Getattr(Name("message"), "content"))>>)}

\* _try_extract_ast: the tree, or None when compiling or parsing raises
TryExtractAst(chat_template) ==
    IF chat_template.compiles THEN Ast(chat_template.body) ELSE NoAst

AnInit ==
    /\ an_template \in TemplateTexts
    /\ jinja_ast = NoAst
    /\ an_default \in ContentFormats
    /\ an_pc = "start"
    /\ related_varnames = <<>>
    /\ messages_varnames = <<>>
    /\ message_varnames = <<>>
    /\ an_result = "none"

\* jinja_ast = _try_extract_ast(chat_template)
\* if jinja_ast is None: return default; else the generators start and
\* _iter_nodes_assign_var_or_elems yields root, "messages"
StartDetect ==
    /\ an_pc = "start"
    /\ jinja_ast' = TryExtractAst(an_template)
    /\ IF jinja_ast'.isNone
       THEN /\ an_pc' = "done"
            /\ an_result' = WithoutAst(an_default)
            /\ UNCHANGED <<related_varnames, messages_varnames>>
       ELSE /\ an_pc' = "bfs"
            /\ related_varnames' = <<"messages">>
            /\ messages_varnames' = <<"messages">>
            /\ UNCHANGED an_result
    /\ UNCHANGED <<an_template, an_default, message_varnames>>
    /\ UNCHANGED <<reqvars, fmtvars>>

\* while related_varnames: one popleft and one scan of the assignments
IterNodesAssignVarOrElems ==
    /\ an_pc = "bfs"
    /\ related_varnames # <<>>
    /\ LET it == BfsIteration(jinja_ast.body, related_varnames, messages_varnames)
       IN  /\ related_varnames' = it.queue
           /\ messages_varnames' = it.yielded
           /\ an_pc' = CASE it.status = "raised" -> "done"
                         [] it.status = "exhausted" -> "exhausted"
                         [] OTHER -> "bfs"
           /\ an_result' = IF it.status = "raised" THEN an_default
                           ELSE an_result
    /\ UNCHANGED <<an_template, jinja_ast, an_default, message_varnames>>
    /\ UNCHANGED <<reqvars, fmtvars>>

\* the deque is empty: the loops over the messages are searched
IterNodesAssignMessagesItem ==
    /\ an_pc = "bfs"
    /\ related_varnames = <<>>
    /\ LET r == AssignMessagesItem(jinja_ast.body, messages_varnames)
       IN  /\ message_varnames' = r.names
           /\ an_pc' = IF r.raised THEN "done" ELSE "content"
           /\ an_result' = IF r.raised THEN an_default ELSE an_result
    /\ UNCHANGED <<an_template, jinja_ast, an_default, related_varnames, messages_varnames>>
    /\ UNCHANGED <<reqvars, fmtvars>>

\* next(_iter_nodes_assign_content_item(jinja_ast)): "openai" or "string"
DetectContentFormat ==
    /\ an_pc = "content"
    /\ an_pc' = "done"
    /\ an_result' = NextAssignContentItem(jinja_ast.body, message_varnames,
                                          an_default)
    /\ UNCHANGED <<an_template, jinja_ast, an_default, related_varnames, messages_varnames,
                   message_varnames>>
    /\ UNCHANGED <<reqvars, fmtvars>>

AnNext ==
    \/ StartDetect
    \/ IterNodesAssignVarOrElems
    \/ IterNodesAssignMessagesItem
    \/ DetectContentFormat

(***************************************************************************)
(* resolve_chat_template_content_format.  A chat template text is given    *)
(* by the template it parses to.                                           *)
(***************************************************************************)
NoTemplate == [isNone |-> TRUE]
Template(body) == [isNone |-> FALSE, body |-> body]

FlatTemplate == <<For(StoreName("message"), Name("messages"))>>
StructuredTemplate ==
    <<For(StoreName("message"), Name("messages")),
      For(StoreName("part"), Getattr(Name("message"), "content"))>>

ChatTemplates == {NoTemplate, Template(FlatTemplate), Template(StructuredTemplate)}
TokenizerTemplates == {NoTemplate, Template(StructuredTemplate)}
FormatOptions == {"auto", "string", "openai"}

\* the list of names _iter_nodes_assign_var_or_elems yields, run to its end
RECURSIVE Propagate(_, _, _)
Propagate(root, queue, yielded) ==
    IF queue = <<>> THEN [status |-> "ok", queue |-> queue, yielded |-> yielded]
    ELSE LET it == BfsIteration(root, queue, yielded)
         IN  IF it.status # "ok" THEN it ELSE Propagate(root, it.queue, it.yielded)

\* _detect_content_format run to its end: whether it returns, and what
DetectFormat(ast) ==
    IF ast.isNone THEN [returns |-> TRUE, format |-> WithoutAst(DefaultFormat)]
    ELSE LET p == Propagate(ast.body, <<"messages">>, <<"messages">>)
             r == AssignMessagesItem(ast.body, p.yielded)
         IN  IF p.status = "exhausted" THEN [returns |-> FALSE, format |-> "none"]
             ELSE IF p.status = "raised" \/ r.raised
             THEN [returns |-> TRUE, format |-> DefaultFormat]
             ELSE [returns |-> TRUE,
                   format |-> NextAssignContentItem(ast.body, r.names,
                                                    DefaultFormat)]

\* 1st priority: the given chat template; else the tokenizer's
ResolveHfChatTemplate(chat_template, tok_template) ==
    IF ~chat_template.isNone THEN chat_template ELSE tok_template

\* detected_format of _resolve_chat_template_content_format
DetectedFormat(chat_template, tok_template) ==
    LET jinja_text == ResolveHfChatTemplate(chat_template, tok_template)
    IN  IF jinja_text.isNone THEN [returns |-> TRUE, format |-> "string"]
        ELSE DetectFormat(Ast(jinja_text.body))

\* return detected_format if given_format == "auto" else given_format
ResolvedFormat(given_format, detected_format) ==
    IF given_format = "auto" THEN detected_format ELSE given_format

\* the condition of the warning of _log_chat_template_content_format
LogWarns(given_format, detected_format) ==
    given_format # "auto" /\ given_format # detected_format

\* the key of the lru_cache: the arguments of the call
LogKey(chat_template, given_format, detected_format) ==
    [chat_template |-> chat_template, given_format |-> given_format,
     detected_format |-> detected_format]

CacheHit(cache, key) == \E i \in 1..Len(cache) : cache[i] = key

\* lru_cache: a hit makes the key the most recent; a miss inserts it and,
\* when the cache is full, evicts the least recent
CachePut(cache, key) ==
    IF CacheHit(cache, key)
    THEN Append(SelectSeq(cache, LAMBDA k : k # key), key)
    ELSE IF Len(cache) >= LruMaxSize THEN Append(Tail(cache), key)
    ELSE Append(cache, key)

FmtInit ==
    /\ tokenizer_template \in TokenizerTemplates
    /\ log_cache = <<>>
    /\ calls = <<>>

\* one call: the format is resolved, then logged through the lru_cache
ResolveChatTemplateContentFormat(chat_template, given_format) ==
    /\ Len(calls) < MaxCalls
    /\ LET analyzed == DetectedFormat(chat_template, tokenizer_template)
           detected_format == ResolvedFormat(given_format, analyzed.format)
           key == LogKey(chat_template, given_format, detected_format)
           miss == ~CacheHit(log_cache, key)
       IN  /\ analyzed.returns
           /\ log_cache' = CachePut(log_cache, key)
           /\ calls' = Append(calls,
                 [chat_template |-> chat_template,
                  given_format |-> given_format,
                  analyzed |-> analyzed.format,
                  returned |-> detected_format,
                  info |-> miss,
                  warning |-> miss /\ LogWarns(given_format, detected_format)])
    /\ UNCHANGED tokenizer_template
    /\ UNCHANGED <<reqvars, anvars>>

FmtNext ==
    \E chat_template \in ChatTemplates, given_format \in FormatOptions :
        ResolveChatTemplateContentFormat(chat_template, given_format)

(***************************************************************************)
(* The specifications: each runs one part and leaves the others idle.      *)
(***************************************************************************)
ReqIdle ==
    /\ model_type = "minicpmo"
    /\ limit_per_prompt = [m \in {} |-> 0]
    /\ content_format = "string"
    /\ pc = "idle"
    /\ role = "none"
    /\ nmsgs = 0
    /\ nparts = 0
    /\ run = [d \in Drivers |-> "idle"]
    /\ error = [d \in Drivers |-> NoError]
    /\ items_by_modality = [d \in Drivers |-> <<>>]
    /\ placeholder_counts = [d \in Drivers |-> <<>>]
    /\ content = [d \in Drivers |-> <<>>]
    /\ conversation = [d \in Drivers |-> <<>>]
    /\ mm_data = [d \in Drivers |-> NoData]
    /\ gather_idx = 0
    /\ tasks = <<>>
    /\ gathered = <<>>
    /\ input = <<>>
    /\ cur_msg = [d \in Drivers |-> 0]
    /\ add_log = [d \in Drivers |-> <<>>]
    /\ fetch_log = [d \in Drivers |-> <<>>]
    /\ completion = <<>>
    /\ messages = [d \in Drivers |-> <<>>]
    /\ original = <<>>
    /\ pass = 1
    /\ first_parse = [d \in Drivers |-> [returned |-> FALSE, conversation |-> <<>>]]

AnIdle ==
    /\ an_template = [compiles |-> FALSE, body |-> <<>>]
    /\ jinja_ast = NoAst
    /\ an_default = "string"
    /\ an_pc = "idle"
    /\ related_varnames = <<>>
    /\ messages_varnames = <<>>
    /\ message_varnames = <<>>
    /\ an_result = "none"

FmtIdle ==
    /\ tokenizer_template = NoTemplate
    /\ log_cache = <<>>
    /\ calls = <<>>

\* a request parsed by both drivers
Init == ReqInit /\ AnIdle /\ FmtIdle
Next == ReqNext
Spec == Init /\ [][Next]_vars

\* the request with the event loop's scheduling: a fetch that was started
\* runs to completion, and a coroutine whose awaited gather is done is
\* resumed.  Whether the caller awaits the coroutine it got is left open.
FairFinalize ==
    /\ \A i \in 1..MaxParts : WF_vars(TaskComplete(i))
    /\ WF_vars(GatherNext)
SpecFinalize == Init /\ [][Next]_vars /\ FairFinalize

\* a request of messages of every role and parts of every shape, parsed by
\* both drivers and then parsed again
InitMessages ==
    /\ model_type = "phi3_v"
    /\ limit_per_prompt = [m \in {} |-> 0]
    /\ content_format \in ContentFormats
    /\ ReqStart
    /\ AnIdle
    /\ FmtIdle
NextMessages ==
    \/ \E message \in Messages : BeginMessage(message)
    \/ \E part \in SchemaParts : ParsePart(part)
    \/ EndMessage
    \/ Return
    \/ ParseAgain
    \/ AwaitStart
    \/ \E i \in 1..MaxParts : TaskComplete(i)
    \/ GatherNext
SpecMessages == InitMessages /\ [][NextMessages]_vars

\* requests of legacy and typed media parts, for a model type that has a
\* placeholder for every modality
InitLegacy ==
    /\ model_type = "minicpmo"
    /\ limit_per_prompt = [m \in {} |-> 0]
    /\ content_format \in ContentFormats
    /\ ReqStart
    /\ AnIdle
    /\ FmtIdle
NextLegacy ==
    \/ \E message \in UserMessages : BeginMessage(message)
    \/ \E part \in LegacyParts \cup TypedParts : ParsePart(part)
    \/ EndMessage
    \/ Return
    \/ AwaitStart
    \/ \E i \in 1..MaxParts : TaskComplete(i)
    \/ GatherNext
SpecLegacy == InitLegacy /\ [][NextLegacy]_vars

\* one run of the analyzer on a template
InitAnalyzer == ReqIdle /\ AnInit /\ FmtIdle
NextAnalyzer == AnNext
SpecAnalyzer == InitAnalyzer /\ [][NextAnalyzer]_vars

\* a series of calls of resolve_chat_template_content_format
InitFormat == ReqIdle /\ AnIdle /\ FmtInit
NextFormat == FmtNext
SpecFormat == InitFormat /\ [][NextFormat]_vars

(***************************************************************************)
(* Properties of a request.                                                *)
(***************************************************************************)
\* the number, among the calls of add for its modality, of call i of the log
CallNumber(log, i) ==
    Cardinality({j \in 1..i : log[j].modality = log[i].modality})

Registered(modality) == ~PlaceholderStr(model_type, modality, 1).raised

\* C1: with a registered model family, the k-th add for a modality succeeds
\* if and only if k <= the modality's limit (1 when unconfigured), so the
\* first failure is LimitExceeded on call limit + 1; and no modality ever
\* holds more items than its limit.
C1_AddWithinLimit ==
    \A d \in Drivers :
        /\ \A i \in 1..Len(add_log[d]) :
              LET e == add_log[d][i]
                  k == CallNumber(add_log[d], i)
                  limit == AllowedCount(limit_per_prompt, e.modality)
              IN  Registered(e.modality) =>
                    /\ (e.raised = "none") <=> (k <= limit)
                    /\ (e.raised # "none") =>
                          (e.raised = "LimitExceeded" /\ k = limit + 1)
        /\ \A j \in 1..Len(items_by_modality[d]) :
              Len(items_by_modality[d][j].v)
                  <= AllowedCount(limit_per_prompt, items_by_modality[d][j].k)

\* two adds succeeded over two messages and the third, call limit + 1, failed
C1_Witness ==
    \E d \in Drivers :
        /\ Len(add_log[d]) = 3
        /\ add_log[d][1].msg # add_log[d][3].msg
        /\ add_log[d][2].raised = "none"
        /\ add_log[d][3].raised = "LimitExceeded"
        /\ CallNumber(add_log[d], 3) = 3

InputCount(type) ==
    Cardinality({i \in 1..Len(input) : input[i].part.type = type})

\* the tracker holds image and image_embeds items, or several image_embeds
Mixed(ibm) ==
    \/ DictHas(ibm, "image") /\ DictHas(ibm, "image_embeds")
    \/ DictHas(ibm, "image_embeds") /\ Len(DictGet(ibm, "image_embeds")) > 1

\* driver d is through: it raised, or its payload is there (awaited)
Done(d) ==
    \/ run[d] = "raised"
    \/ run[d] = "returned" /\ mm_data[d].status \in {"done", "raised"}

\* the exception driver d (or the await of its payload) ended with
FailKind(d) == IF run[d] = "raised" THEN error[d].kind ELSE mm_data[d].raised

\* the checks of all_mm_data ran for driver d
ChecksRan(d) ==
    /\ items_by_modality[d] # <<>>
    /\ IF d = "sync"
       THEN pc = "returned" /\ error[d].stage \in {"none", "finalize"}
       ELSE /\ mm_data[d].status \in {"done", "raised"}
            /\ Len(gathered) = Len(items_by_modality[d])

PayloadOnlyUnmixed ==
    \A d \in Drivers :
        (mm_data[d].status = "done" /\ ~mm_data[d].isNone)
            => ~Mixed(items_by_modality[d])

MixedInput ==
    \/ InputCount("image_url") > 0 /\ InputCount("image_embeds") > 0
    \/ InputCount("image_embeds") > 1

\* C2 as stated: a payload is returned only by an unmixed tracker, and a
\* request with an image_url part and an image_embeds part, or with several
\* image_embeds parts, fails with MixedModality in both variants.
C2_MixedRequestFailsMixedModality ==
    /\ PayloadOnlyUnmixed
    /\ \A d \in Drivers :
          (MixedInput /\ Done(d)) => FailKind(d) = "MixedModality"

\* C2 amended: a payload is returned only by an unmixed tracker; when the
\* checks of all_mm_data run on a tracker that accepted both an image and an
\* image_embeds item, or several image_embeds items, it fails with
\* MixedModality, in both variants.
C2_MixedTrackerFailsMixedModality ==
    /\ PayloadOnlyUnmixed
    /\ \A d \in Drivers :
          (ChecksRan(d) /\ Mixed(items_by_modality[d]))
              => FailKind(d) = "MixedModality"

\* both variants fail with MixedModality on an image and an embedding
C2_Witness ==
    \A d \in Drivers :
        /\ ChecksRan(d)
        /\ DictHas(items_by_modality[d], "image")
        /\ DictHas(items_by_modality[d], "image_embeds")
        /\ FailKind(d) = "MixedModality"

\* the collaborator returned a value for every locator of the input
AllFetchesReturn ==
    \A i \in 1..Len(input) :
        "image_url" \in DOMAIN input[i].part
            => ~FetchFails(input[i].part.image_url.url)

\* the outcome of all_mm_data of the blocking driver
SyncFinalized ==
    IF error["sync"].stage = "finalize"
    THEN RaisedData(error["sync"].kind) ELSE mm_data["sync"]

\* C5: with a collaborator that returns the same value in both forms, the
\* two drivers agree: on whether and how parsing fails, on the canonical
\* conversation, and, once the concurrent payload is awaited, on the
\* multimodal payload (or the failure of all_mm_data).
C5_SyncAsyncAgree ==
    AllFetchesReturn =>
        /\ \A d \in Drivers :
              error[d].stage \in {"part", "message"}
                  => error["sync"] = error["async"]
        /\ error["sync"].stage \in {"none", "finalize"}
              => conversation["sync"] = conversation["async"]
        /\ (pc = "returned" /\ mm_data["async"].status \in {"done", "raised"})
              => SyncFinalized = mm_data["async"]

\* C6: in the concurrent variant, once a pending fetch has failed,
\* all_mm_data has failed and holds no payload.
C6_FailedFetchFailsFinalize ==
    (\E i \in 1..Len(tasks) : tasks[i] = "failed")
        => mm_data["async"] = RaisedData("FetchError")

\* one fetch of a gather succeeded and another failed
C6_Witness ==
    /\ \E i \in 1..Len(tasks) : tasks[i] = "failed"
    /\ \E i \in 1..Len(tasks) : tasks[i] = "done"
    /\ mm_data["async"].status = "raised"

(***************************************************************************)
(* Flat format: the content of the message a driver ended last, told from  *)
(* the history of add (the items of the message and their placeholders)    *)
(* and from the text parts of the message.                                 *)
(***************************************************************************)
\* the entries of add for message m that produced a placeholder
Produced(d, m) ==
    SelectSeq(add_log[d],
              LAMBDA e : e.msg = m /\ e.raised = "none"
                            /\ ~e.placeholder.isNone /\ e.placeholder.s # EmptyStr)

ItemsWith(d, m, p) ==
    Cardinality({i \in 1..Len(Produced(d, m)) : Produced(d, m)[i].placeholder.s = p})

\* the joined text body of the current message of driver d
TextBody(d) == Join([i \in 1..Len(content[d]) |-> content[d][i].str], NL)

\* for the placeholders in first-encountered order, the copies of each that
\* the body lacks, each on its own line
RECURSIVE MissingLines(_, _, _, _)
MissingLines(d, m, i, body) ==
    IF i > Len(Produced(d, m)) THEN EmptyStr
    ELSE LET p == Produced(d, m)[i].placeholder.s
             first == \A j \in 1..(i - 1) : Produced(d, m)[j].placeholder.s # p
             lines == IF first
                      THEN Join(Repeat(p \o NL, ItemsWith(d, m, p) - Count(body, p)),
                                EmptyStr)
                      ELSE EmptyStr
         IN  lines \o MissingLines(d, m, i + 1, body)

\* driver d went through all the parts of message cur_msg[d], whose text
\* parts content[d] still holds
EndedMessage(d) ==
    /\ content_format = "string"
    /\ cur_msg[d] > 0
    /\ pc # "parts" \/ ~Running(d)
    /\ error[d].stage # "part"

\* C7: in flat format, when the body holds k <= n literal occurrences of
\* each placeholder p that n items of the message produced, the content is
\* the n - k missing copies of each p, one per line, in first-encountered
\* order of the placeholders, followed by the unchanged body.
C7_MissingPlaceholdersInFront ==
    \A d \in Drivers :
        LET m == cur_msg[d]
            body == TextBody(d)
        IN  (/\ EndedMessage(d)
             /\ Produced(d, m) # <<>>
             /\ \A i \in 1..Len(Produced(d, m)) :
                    Count(body, Produced(d, m)[i].placeholder.s)
                        <= ItemsWith(d, m, Produced(d, m)[i].placeholder.s))
            => /\ Len(conversation[d]) = m
               /\ conversation[d][m].content = MissingLines(d, m, 1, body) \o body

\* two images and the body "Describe these.": the placeholder twice, then
\* the body
C7_Witness ==
    \E d \in Drivers :
        /\ EndedMessage(d)
        /\ Len(Produced(d, cur_msg[d])) = 2
        /\ Len(conversation[d]) = cur_msg[d]
        /\ conversation[d][cur_msg[d]].content
              = <<"(<image>./</image>)", "\n", "(<image>./</image>)", "\n",
                  "Describe these.">>

RECURSIVE AliasClosure(_, _)
AliasClosure(root, S) ==
    LET more == {root[i].target.name :
                    i \in {j \in 1..Len(root) :
                              /\ root[j].type = "Assign"
                              /\ root[j].target.type = "Name"
                              /\ \E v \in S :
                                    IsVarOrElemsAccess(root[j].node, v, NoKey)}}
    IN  IF more \subseteq S THEN S ELSE AliasClosure(root, S \cup more)

\* the aliases of the message list
MessagesAliases(root) == AliasClosure(root, {"messages"})

\* the per-message variables: the targets of the loops over an alias of the
\* message list, and their aliases
MessageVars(root) ==
    AliasClosure(root,
        {root[i].target.name :
            i \in {j \in 1..Len(root) :
                      /\ root[j].type = "For"
                      /\ root[j].target.type = "Name"
                      /\ \E v \in MessagesAliases(root) :
                            IsVarOrElemsAccess(root[j].iter, v, NoKey)}})

\* the aliases of the content of a message
ContentAliases(root) ==
    AliasClosure(root,
        {root[i].target.name :
            i \in {j \in 1..Len(root) :
                      /\ root[j].type = "Assign"
                      /\ root[j].target.type = "Name"
                      /\ \E v \in MessageVars(root) :
                            IsVarOrElemsAccess(root[j].node, v, "content")}})

\* the template has a for-loop over the content of one message
IteratesContent(root) ==
    \E i \in 1..Len(root) :
        /\ root[i].type = "For"
        /\ \/ \E v \in MessageVars(root) :
                 IsVarOrElemsAccess(root[i].iter, v, "content")
           \/ \E c \in ContentAliases(root) :
                 IsVarOrElemsAccess(root[i].iter, c, NoKey)

\* C3: a parsed template classifies Structured ("openai") when it has a
\* for-loop over the content of one message, through any chain of aliases of
\* the message list, of the per-message variable and of its content, and
\* Flat ("string") when it has none.
C3_ContentLoopClassifiesStructured ==
    (an_pc = "done" /\ ~jinja_ast.isNone)
        => (an_result = "openai" <=> IteratesContent(jinja_ast.body))

\* C4: alias propagation ends with no name left to expand, for every
\* template: it never goes on until the list of aliases exhausts memory.
C4_AliasPropagationTerminates == an_pc # "exhausted"

(***************************************************************************)
(* Properties of the diagnostic.                                           *)
(***************************************************************************)
\* the tuple of call i: template, requested format, format the analyzer
\* detects
Tuple(i) ==
    <<calls[i].chat_template, calls[i].given_format, calls[i].analyzed>>

\* C9: over any series of calls, the informational diagnostic is emitted at
\* most once per (template, requested format, detected format) tuple.
C9_InfoAtMostOncePerTuple ==
    \A i, j \in 1..Len(calls) :
        (i < j /\ Tuple(i) = Tuple(j)) => ~(calls[i].info /\ calls[j].info)

\* C10: a call that emits the diagnostic for an explicitly requested format
\* that differs from the format the analyzer detects emits the warning.
C10_WarningOnDisagreement ==
    \A i \in 1..Len(calls) :
        (/\ calls[i].info
         /\ calls[i].given_format # "auto"
         /\ calls[i].given_format # calls[i].analyzed)
            => calls[i].warning

(***************************************************************************)
(* Properties of the conversation builder: tool calls and the caller's     *)
(* messages.                                                               *)
(***************************************************************************)

\* the conversation driver d holds, as its holder reads it
Returned(d) == Canonical(conversation[d], messages[d])

\* C11: after the first parse returns, every tool call of every canonical
\* message made of an assistant message with tool_calls carries, as its
\* arguments, the value the encoded text that arrived decodes to and no text;
\* the text {"a": 1} gives the dict {a: 1}.
C11_ToolCallArgumentsDecoded ==
    \A d \in Drivers :
        (pass = 1 /\ run[d] = "returned") =>
            /\ Len(Returned(d)) = Len(original)
            /\ \A i \in 1..Len(original) :
                  (original[i].role = "assistant"
                        /\ "tool_calls" \in DOMAIN original[i]) =>
                     /\ "tool_calls" \in DOMAIN Returned(d)[i]
                     /\ Len(Returned(d)[i].tool_calls) = Len(original[i].tool_calls)
                     /\ \A j \in 1..Len(original[i].tool_calls) :
                           LET text == original[i].tool_calls[j].function.arguments
                               args == Returned(d)[i].tool_calls[j].function.arguments
                           IN  /\ args.t # "str"
                               /\ JsonLoads(text) = [raised |-> "none", value |-> args]
                               /\ text = GoodArguments =>
                                     args = JsonDict(<<[k |-> "a", v |-> JsonInt(1)]>>)

\* both drivers returned an assistant message whose tool call holds {a: 1}
C11_Witness ==
    \A d \in Drivers :
        /\ pass = 1
        /\ run[d] = "returned"
        /\ \E i \in 1..Len(original) :
              /\ original[i].role = "assistant"
              /\ original[i].tool_calls[1].function.arguments = GoodArguments
              /\ Returned(d)[i].tool_calls[1].function.arguments
                    = JsonDict(<<[k |-> "a", v |-> JsonInt(1)]>>)

\* C20: the drivers leave the caller's messages as they arrived, and a
\* second parse of the same list returns, with the conversation the first
\* parse returned.
C20_InputUnchangedAndReparseAgrees ==
    \A d \in Drivers :
        /\ run[d] = "returned" => messages[d] = original
        /\ (pass = 2 /\ first_parse[d].returned) =>
              /\ run[d] # "raised"
              /\ run[d] = "returned" => Returned(d) = first_parse[d].conversation

(***************************************************************************)
(* Properties of the content part parser.                                  *)
(***************************************************************************)

\* this step parses a content part: the part is input'[nparts'].part
ParsesPart == pc = "parts" /\ nparts' = nparts + 1

\* a media part without a locator
EmptyLocator(part) ==
    /\ "type" \in DOMAIN part
    /\ part.type = "image_url"
    /\ part.image_url.url = EmptyStr

\* C12: parsing a media part whose locator is empty fails no driver, emits
\* no canonical part, calls neither the collaborator nor add, and leaves the
\* tracker's items and the placeholder counts as they were, so that the
\* parts after it are parsed as without it.
C12_EmptyLocatorPartDropped ==
    [][(ParsesPart /\ EmptyLocator(input'[nparts'].part))
          => UNCHANGED <<run, error, items_by_modality, placeholder_counts,
                         content, conversation, add_log, fetch_log>>]_vars

\* a message of an image part without locator and then a text was parsed
\* by both drivers: its content is the text alone and nothing was retrieved
C12_Witness ==
    /\ Len(input) = 2
    /\ EmptyLocator(input[1].part)
    /\ input[2] = [msg |-> 1, part |-> [type |-> "text", text |-> Body]]
    /\ content_format = "openai"
    /\ \A d \in Drivers :
          /\ run[d] = "returned"
          /\ conversation[d][1].content = <<[type |-> "text", text |-> Body]>>
          /\ items_by_modality[d] = <<>>
          /\ fetch_log[d] = <<>>
          /\ mm_data[d].isNone

\* the type tags of the wire format
RecognizedTypes ==
    {"text", "refusal", "image_url", "image_embeds", "audio_url",
     "input_audio", "video_url"}

\* a dict part without type and without a legacy field
MissingType(part) ==
    /\ "bare" \notin DOMAIN part
    /\ "type" \notin DOMAIN part
    /\ DOMAIN part \cap {"image_url", "audio_url", "input_audio", "video_url"} = {}

\* a part whose type is there and is none of the recognized strings
UnrecognizedType(part) ==
    "type" \in DOMAIN part /\ part.type \notin RecognizedTypes

SchemaViolation(d, kind) ==
    run'[d] = "raised" /\ error'[d] = [kind |-> kind, stage |-> "part"]

\* C13: a part without type and without legacy field fails the request as
\* SchemaViolation "missing type"; a part whose type is present and is not
\* one of the recognized strings fails it as SchemaViolation "invalid type".
C13_SchemaViolations ==
    [][\A d \in Drivers :
          (Running(d) /\ ParsesPart) =>
             /\ MissingType(input'[nparts'].part)
                   => SchemaViolation(d, "SchemaViolationMissingType")
             /\ UnrecognizedType(input'[nparts'].part)
                   => SchemaViolation(d, "SchemaViolationInvalidType")]_vars

(***************************************************************************)
(* Properties of the analyzer's failure handling.                          *)
(***************************************************************************)

\* C14: when the syntax tree of the template cannot be obtained, the
\* analysis does not go on and raises nothing: _detect_content_format
\* returns the default its caller passed.
C14_NoTreeReturnsDefault ==
    ~an_template.compiles =>
        /\ an_pc \in {"idle", "start", "done"}
        /\ jinja_ast.isNone
        /\ an_pc = "done" => an_result = an_default

\* a text that holds a loop over message.content and does not compile was
\* analyzed with the default "openai"
C14_Witness ==
    /\ ~an_template.compiles
    /\ an_template.body # <<>>
    /\ an_pc = "done"
    /\ an_default = "openai"
    /\ an_result = "openai"

(***************************************************************************)
(* Properties of the concurrent all_mm_data.                               *)
(***************************************************************************)

\* the retrieval of item i of entry k has not been started
NotStarted(k, i) == AsyncItems[k].v[i].pend = "coro" /\ k > gather_idx

\* C15: all pending items of all modalities are awaited concurrently: while
\* the retrieval of one item is under way, no other pending item is waiting
\* to be started, be it of the same or of another modality.
C15_AllPendingAwaitedConcurrently ==
    (mm_data["async"].status = "awaiting"
          /\ \E i \in 1..Len(tasks) : tasks[i] = "running")
        => \A k \in 1..Len(AsyncItems) :
              \A i \in 1..Len(AsyncItems[k].v) : ~NotStarted(k, i)

\* the locators of the image parts of the input that have one, in order
ImageLocators ==
    LET parts == SelectSeq(input,
                    LAMBDA e : /\ e.part.type = "image_url"
                               /\ e.part.image_url.url # EmptyStr)
    IN  [i \in 1..Len(parts) |-> parts[i].part.image_url.url]

Sources(items) == [i \in 1..Len(items) |-> items[i].src]

\* the concurrent payload is there and holds a list of images
AsyncImages ==
    /\ run["async"] = "returned"
    /\ mm_data["async"].status = "done"
    /\ ~mm_data["async"].isNone
    /\ "image" \in DOMAIN mm_data["async"].value
    /\ ~mm_data["async"].value["image"].single

\* C16: whatever the order in which the pending fetches complete, the list
\* of a modality in the payload is in the order the items were added while
\* parsing: the images are those of the image parts, in their order.
C16_PayloadInIssueOrder ==
    AsyncImages =>
        /\ Sources(mm_data["async"].value["image"].items) = ImageLocators
        /\ Sources(mm_data["async"].value["image"].items)
              = Sources(DictGet(AsyncItems, "image"))

\* the fetch of the second image completed before that of the first
C16_Witness ==
    /\ AsyncImages
    /\ ImageLocators = <<<<"u1">>, <<"u2">>>>
    /\ fetch_log["async"] = <<<<"u2">>, <<"u1">>>>
    /\ Sources(mm_data["async"].value["image"].items) = <<<<"u1">>, <<"u2">>>>

\* C17: in concurrent mode no media fetch runs in the parsing flow: while
\* the driver parses, the collaborator has retrieved nothing; and every
\* pending computation is joined once, in all_mm_data: when the payload is
\* there, each item the tracker holds was retrieved exactly once.
C17_FetchesDeferredAndJoinedOnce ==
    /\ run["async"] = "running" => fetch_log["async"] = <<>>
    /\ (run["async"] = "returned" /\ mm_data["async"].status = "done"
            /\ ~mm_data["async"].isNone)
          => \A src \in Locators \cup {<<"e1">>} :
                Cardinality({n \in 1..Len(fetch_log["async"]) :
                                fetch_log["async"][n] = src})
                    = Cardinality({e \in (1..Len(AsyncItems)) \X (1..MaxParts) :
                                /\ e[2] <= Len(AsyncItems[e[1]].v)
                                /\ AsyncItems[e[1]].v[e[2]].src = src})

(***************************************************************************)
(* The content of a canonical message against the parts of its input       *)
(* message.                                                                *)
(***************************************************************************)

\* the parts the caller gave for message number m, in their order
InputParts(m) == SelectSeq(input, LAMBDA e : e.msg = m)

\* a dict part that is a text or a refusal
IsTextPart(part) == "type" \in DOMAIN part /\ part.type \in {"text", "refusal"}

\* the string a part carries
PartString(part) ==
    IF "bare" \in DOMAIN part THEN part.bare
    ELSE IF "refusal" \in DOMAIN part THEN part.refusal
    ELSE part.text

\* the kind of the marker of a media part
MediaKind(part) ==
    CASE part.type \in {"image_url", "image_embeds"} -> "image"
      [] part.type \in {"audio_url", "input_audio"} -> "audio"
      [] OTHER -> "video"

\* the structured record of a part
StructuredRecord(part) ==
    IF "bare" \in DOMAIN part \/ IsTextPart(part)
    THEN [type |-> "text", text |-> PartString(part)]
    ELSE [type |-> MediaKind(part)]

\* the parts of message m, the media parts without locator aside
KeptParts(m) == SelectSeq(InputParts(m), LAMBDA e : ~EmptyLocator(e.part))

\* C18: with the structured format, the content of every canonical message
\* is the list of the structured records of the parts of its input message
\* in their order, the media parts without locator aside: {type text, text}
\* for a text or a refusal, the marker of its kind for a media part, and no
\* bare string.
C18_StructuredContentIsRecordsInOrder ==
    content_format = "openai"
        => \A d \in Drivers :
              \A m \in 1..Len(conversation[d]) :
                  conversation[d][m].content
                      = [i \in 1..Len(KeptParts(m)) |->
                            StructuredRecord(KeptParts(m)[i].part)]

\* the text and refusal dict parts of message m
MessageTextParts(m) == SelectSeq(InputParts(m), LAMBDA e : IsTextPart(e.part))

\* the text records of a structured content
TextRecords(msg_content) == SelectSeq(msg_content, LAMBDA r : "text" \in DOMAIN r)

\* C19: with the structured format, every text or refusal part of an input
\* message, the empty ones included, has its record in the content of the
\* canonical message: the text records of the content carry the strings of
\* the text and refusal parts, one for one and in order.
C19_TextPartsNeverDropped ==
    content_format = "openai"
        => \A d \in Drivers :
              \A m \in 1..Len(conversation[d]) :
                  [i \in 1..Len(TextRecords(conversation[d][m].content)) |->
                        TextRecords(conversation[d][m].content)[i].text]
                      = [i \in 1..Len(MessageTextParts(m)) |->
                            PartString(MessageTextParts(m)[i].part)]

(***************************************************************************)
(* The tracker across a call of add that fails.                            *)
(***************************************************************************)

\* in this step driver d called add and the call raised
AddFailed(d) ==
    /\ Len(add_log'[d]) = Len(add_log[d]) + 1
    /\ add_log'[d][Len(add_log'[d])].raised \in {"LimitExceeded", "ConfigurationGap"}

\* C21: a call of add that raises, for the limit or for a model type without
\* placeholder for the modality, leaves the tracker's mapping from modality
\* to items with the keys and the item lists it had before the call.
C21_FailedAddLeavesTrackerUnchanged ==
    [][\A d \in Drivers :
          AddFailed(d) => items_by_modality'[d] = items_by_modality[d]]_vars

(***************************************************************************)
(* Placeholders over the whole canonical conversation, flat format.        *)
(***************************************************************************)

\* the occurrences of p in the contents of messages i.. of conv
RECURSIVE Occurrences(_, _, _)
Occurrences(conv, i, p) ==
    IF i > Len(conv) THEN 0
    ELSE Count(conv[i].content, p) + Occurrences(conv, i + 1, p)

\* the calls of add by driver d that returned the placeholder p
ItemsRecorded(d, p) ==
    Cardinality({i \in 1..Len(add_log[d]) :
                    /\ add_log[d][i].raised = "none"
                    /\ ~add_log[d][i].placeholder.isNone
                    /\ add_log[d][i].placeholder.s = p})

\* the non-empty placeholder strings of the request: those add returned and
\* the literal ones of its texts
PlaceholderStrings(d) ==
    {add_log[d][i].placeholder.s : i \in 1..Len(add_log[d])}
        \cup LiteralPlaceholders(model_type)

\* C22: in flat format, when a driver has returned, every non-empty
\* placeholder string occurs in the contents of the canonical messages, all
\* together, as many times as the tracker recorded items with it.
C22_PlaceholderTotalsMatchItems ==
    content_format = "string"
        => \A d \in Drivers :
              run[d] = "returned"
                  => \A p \in PlaceholderStrings(d) \ {EmptyStr} :
                        Occurrences(conversation[d], 1, p) = ItemsRecorded(d, p)

(***************************************************************************)
(* Retrievals against the tracker's limits.                                *)
(***************************************************************************)

\* the modality a media part is added under
ModalityOf(part) ==
    CASE part.type = "image_url" -> "image"
      [] part.type = "image_embeds" -> "image_embeds"
      [] part.type \in {"audio_url", "input_audio"} -> "audio"
      [] OTHER -> "video"

\* the items driver d's tracker holds for a modality
Held(d, modality) ==
    IF DictHas(items_by_modality[d], modality)
    THEN Len(DictGet(items_by_modality[d], modality)) ELSE 0

\* in this step the collaborator retrieved something for driver d
Retrieves(d) == Len(fetch_log'[d]) > Len(fetch_log[d])

\* C23: the collaborator retrieves only for items the tracker accepts.  A
\* retrieval made while a part is parsed is for a part the limit of its
\* modality still admits, so that a part rejected for the limit causes no
\* retrieval; a retrieval made by a task of finalize is for an item of a
\* list no longer than the limit of its modality.
C23_RetrievalOnlyForAcceptedItems ==
    [][\A d \in Drivers :
          Retrieves(d)
              => IF ParsesPart
                 THEN Held(d, ModalityOf(input'[nparts'].part)) + 1
                          <= AllowedCount(limit_per_prompt,
                                          ModalityOf(input'[nparts'].part))
                 ELSE Len(AsyncItems[gather_idx].v)
                          <= AllowedCount(limit_per_prompt,
                                          AsyncItems[gather_idx].k)]_vars

(***************************************************************************)
(* Termination of the awaited all_mm_data.                                 *)
(***************************************************************************)
Finalizing == mm_data["async"].status = "awaiting"
Finalized == mm_data["async"].status \in {"done", "raised"}

\* C24: when every started fetch completes, the awaited all_mm_data of the
\* concurrent variant eventually returns its payload or raises, whatever
\* parts the tracker accepted, an image_embeds part whose payload is neither
\* a str nor a dict included.
C24_FinalizeEventuallyCompletes == Finalizing ~> Finalized

(***************************************************************************)
(* Legacy parts against typed parts.                                       *)
(***************************************************************************)

\* what parsing a part from the current state makes of driver d's tracker
\* and of the calls of the collaborator
AfterParsing(d, part) ==
    LET o == ParseChatMessageContentPart(d, items_by_modality[d],
                 placeholder_counts[d], part, content_format = "openai")
    IN  [items |-> o.items, fetches |-> fetch_log[d] \o o.fetches]

\* C25: parsing a part that omits type and carries image_url, audio_url,
\* input_audio or video_url hands the collaborator the locator the typed
\* part of the same kind hands it: for every running driver the retrievals
\* and the tracker's items after the step are those of parsing the typed
\* part.
C25_LegacyPartParsedLikeTyped ==
    [][(ParsesPart /\ input'[nparts'].part \in LegacyParts)
          => \A d \in Drivers :
                Running(d)
                    => /\ fetch_log'[d]
                            = AfterParsing(d, Typed(input'[nparts'].part)).fetches
                       /\ items_by_modality'[d]
                            = AfterParsing(d, Typed(input'[nparts'].part)).items]_vars

====
